---- MODULE Spec2Model ----
\* A model of chat_extract.py (ChatExtract): main, load_conversations,
\* extract_by_date, list_dates, generate_html, simple_markdown_to_html and
\* clean_openai_markup.
\*
\* Text is a sequence of one-character strings.  The three private-use
\* delimiters U+E200, U+E201, U+E202 are the characters "E200", "E201", "E202";
\* "E000" stands for any other private-use character; "BQ" is the backquote.
EXTENDS Integers, Sequences, FiniteSets

\* ------------------------------------------------------------------ bounds
\* most tokens in a text given to simple_markdown_to_html on its own
MaxTok == 3

\* most conversations in the input conversations.json
MaxConvs == 2

\* most nodes in the mapping of a conversation given to generate_html on its own
MaxNodes == 3

\* --------------------------------------------------------- text primitives
NL == "\n"

\* the backquote character
BQ == "BQ"

PUA == {"E000", "E200", "E201", "E202"}

\* s[i..j] (empty when j < i)
Slice(s, i, j) == IF j < i THEN <<>> ELSE SubSeq(s, i, j)

\* pat occurs in s at index i
StartsWithAt(s, i, pat) ==
    /\ i >= 1
    /\ i + Len(pat) - 1 <= Len(s)
    /\ \A k \in 1..Len(pat) : s[i + k - 1] = pat[k]

Min(S) == CHOOSE x \in S : \A y \in S : x <= y

\* index of the first element of s at or after i that is in set cs, or 0
FirstIn(s, i, cs) ==
    LET hits == {k \in i..Len(s) : s[k] \in cs}
    IN  IF hits = {} THEN 0 ELSE Min(hits)

RECURSIVE Concat(_)
Concat(ss) == IF ss = <<>> THEN <<>> ELSE Head(ss) \o Concat(Tail(ss))

Count(s, c) == Cardinality({k \in 1..Len(s) : s[k] = c})

CountSub(s, pat) == Cardinality({k \in 1..Len(s) : StartsWithAt(s, k, pat)})

\* ------------------------------------------------------ clean_openai_markup
CiteOpen == <<"E200", "c", "i", "t", "e", "E202">>

EntityOpen == <<"E200", "e", "n", "t", "i", "t", "y", "E202", "[">>

\* re.sub(r'\ue200cite\ue202[^\ue201]+\ue201', '', text)
\* end of the match starting at i, or 0
CiteMatchEnd(s, i) ==
    IF ~StartsWithAt(s, i, CiteOpen) THEN 0
    ELSE LET b == i + Len(CiteOpen)
             e == FirstIn(s, b, {"E201"})
         IN  IF e > b THEN e ELSE 0

RECURSIVE StripCitations(_, _)
StripCitations(s, i) ==
    IF i > Len(s) THEN <<>>
    ELSE LET e == CiteMatchEnd(s, i)
         IN  IF e > 0 THEN StripCitations(s, e + 1)
             ELSE <<s[i]>> \o StripCitations(s, i + 1)

\* re.sub(r'\ue200entity\ue202\[[^\]]+\]\ue201', '', text)
EntityMatchEnd(s, i) ==
    IF ~StartsWithAt(s, i, EntityOpen) THEN 0
    ELSE LET b == i + Len(EntityOpen)
             r == FirstIn(s, b, {"]"})
         IN  IF r > b /\ StartsWithAt(s, r + 1, <<"E201">>) THEN r + 1 ELSE 0

RECURSIVE StripEntities(_, _)
StripEntities(s, i) ==
    IF i > Len(s) THEN <<>>
    ELSE LET e == EntityMatchEnd(s, i)
         IN  IF e > 0 THEN StripEntities(s, e + 1)
             ELSE <<s[i]>> \o StripEntities(s, i + 1)

\* re.sub(r'[\ue000-\uf8ff]', '', text)
StripPUA(s) == SelectSeq(s, LAMBDA c : c \notin PUA)

clean_openai_markup(text) ==
    StripPUA(StripEntities(StripCitations(text, 1), 1))

\* -------------------------------------------------------------- html.escape
EscapeChar(c) ==
    CASE c = "&"  -> <<"&", "a", "m", "p", ";">>
      [] c = "<"  -> <<"&", "l", "t", ";">>
      [] c = ">"  -> <<"&", "g", "t", ";">>
      [] c = "\"" -> <<"&", "q", "u", "o", "t", ";">>
      [] c = "'"  -> <<"&", "#", "x", "2", "7", ";">>
      [] OTHER    -> <<c>>

\* html.escape applied to its own result
RECURSIVE HtmlEscapeTwice(_)
HtmlEscapeTwice(s) ==
    IF s = <<>> THEN <<>>
    ELSE Concat([k \in 1..Len(EscapeChar(Head(s))) |-> EscapeChar(EscapeChar(Head(s))[k])])
         \o HtmlEscapeTwice(Tail(s))

RECURSIVE HtmlEscape(_)
HtmlEscape(s) ==
    IF s = <<>> THEN <<>> ELSE EscapeChar(Head(s)) \o HtmlEscape(Tail(s))

\* --------------------------------------------------- markdown substitutions
Tag(name) == <<"<">> \o name \o <<">">>

EndTag(name) == <<"<", "/">> \o name \o <<">">>

\* start of a line (re.MULTILINE '^')
LineStart(s, i) == i = 1 \/ s[i - 1] = NL

\* index just past the end of the line holding i (re.MULTILINE '$')
LineEnd(s, i) ==
    LET e == FirstIn(s, i, {NL}) IN IF e = 0 THEN Len(s) + 1 ELSE e

\* re.sub(r'^<prefix>(.+)$', r'<hN>\1</hN>', text, flags=re.MULTILINE)
RECURSIVE SubHeader(_, _, _, _)
SubHeader(s, i, prefix, name) ==
    IF i > Len(s) THEN <<>>
    ELSE LET b == i + Len(prefix)
             e == LineEnd(s, i)
         IN  IF LineStart(s, i) /\ StartsWithAt(s, i, prefix) /\ e > b
             THEN Tag(name) \o Slice(s, b, e - 1) \o EndTag(name)
                  \o SubHeader(s, e, prefix, name)
             ELSE <<s[i]>> \o SubHeader(s, i + 1, prefix, name)

\* start of the closing delimiter of the lazy match open(.+?)close at i, or 0;
\* dotall is TRUE for ([\s\S]+?), FALSE for (.+?)
LazyClose(s, i, delim, dotall) ==
    IF ~StartsWithAt(s, i, delim) THEN 0
    ELSE LET b == i + Len(delim)
             ends == {j \in (b + 1)..Len(s) :
                        /\ StartsWithAt(s, j, delim)
                        /\ dotall \/ \A k \in b..(j - 1) : s[k] # NL}
         IN  IF ends = {} THEN 0 ELSE Min(ends)

\* re.sub(r'D(.+?)D', r'<name>\1</name>', text) for a delimiter D
RECURSIVE SubDelimited(_, _, _, _, _, _)
SubDelimited(s, i, delim, dotall, open, close) ==
    IF i > Len(s) THEN <<>>
    ELSE LET j == LazyClose(s, i, delim, dotall)
         IN  IF j > 0
             THEN open \o Slice(s, i + Len(delim), j - 1) \o close
                  \o SubDelimited(s, j + Len(delim), delim, dotall, open, close)
             ELSE <<s[i]>> \o SubDelimited(s, i + 1, delim, dotall, open, close)

\* re.sub(r'BQ([^BQ]+)BQ', r'<code>\1</code>', text), BQ the backquote
RECURSIVE SubInlineCode(_, _)
SubInlineCode(s, i) ==
    IF i > Len(s) THEN <<>>
    ELSE LET j == IF s[i] = BQ THEN FirstIn(s, i + 1, {BQ}) ELSE 0
         IN  IF j > i + 1
             THEN Tag(<<"c", "o", "d", "e">>) \o Slice(s, i + 1, j - 1)
                  \o EndTag(<<"c", "o", "d", "e">>) \o SubInlineCode(s, j + 1)
             ELSE <<s[i]>> \o SubInlineCode(s, i + 1)

AOpen1 == <<"<", "a", " ", "h", "r", "e", "f", "=", "\"">>

AOpen2 == <<"\"", " ", "t", "a", "r", "g", "e", "t", "=", "\"", "_", "b", "l", "a", "n", "k", "\"", ">">>

\* re.sub(r'\[([^\]]+)\]\(([^\)]+)\)', r'<a href="\2" target="_blank">\1</a>', text)
RECURSIVE SubLinks(_, _)
SubLinks(s, i) ==
    IF i > Len(s) THEN <<>>
    ELSE LET r == IF s[i] = "[" THEN FirstIn(s, i + 1, {"]"}) ELSE 0
             q == IF r > i + 1 /\ StartsWithAt(s, r + 1, <<"(">>)
                  THEN FirstIn(s, r + 2, {")"}) ELSE 0
         IN  IF q > r + 2
             THEN AOpen1 \o Slice(s, r + 2, q - 1) \o AOpen2
                  \o Slice(s, i + 1, r - 1) \o EndTag(<<"a">>) \o SubLinks(s, q + 1)
             ELSE <<s[i]>> \o SubLinks(s, i + 1)

\* text.split('\n\n')
RECURSIVE SplitParas(_, _, _)
SplitParas(s, i, cur) ==
    IF i > Len(s) THEN <<cur>>
    ELSE IF StartsWithAt(s, i, <<NL, NL>>)
         THEN <<cur>> \o SplitParas(s, i + 2, <<>>)
         ELSE SplitParas(s, i + 1, Append(cur, s[i]))

\* p.replace('\n', '<br>')
RECURSIVE ReplaceBreaks(_)
ReplaceBreaks(p) ==
    IF p = <<>> THEN <<>>
    ELSE (IF Head(p) = NL THEN Tag(<<"b", "r">>) ELSE <<Head(p)>>)
         \o ReplaceBreaks(Tail(p))

FormatPara(p) ==
    IF ~StartsWithAt(p, 1, <<"<">>)
    THEN Tag(<<"p">>) \o ReplaceBreaks(p) \o EndTag(<<"p">>)
    ELSE p

RECURSIVE FormatParas(_)
FormatParas(ps) ==
    IF ps = <<>> THEN <<>> ELSE FormatPara(Head(ps)) \o FormatParas(Tail(ps))

Paragraphs(text) == FormatParas(SplitParas(text, 1, <<>>))

\* the stages of simple_markdown_to_html, in source order
Stages == <<"clean", "escape", "h3", "h2", "h1", "bold", "italic_star",
            "italic_us", "codeblock", "inlinecode", "links", "paragraphs">>

ApplyStage(st, text) ==
    CASE st = "clean"       -> clean_openai_markup(text)
      [] st = "escape"      -> HtmlEscape(text)
      [] st = "h3"          -> SubHeader(text, 1, <<"#", "#", "#", " ">>, <<"h", "3">>)
      [] st = "h2"          -> SubHeader(text, 1, <<"#", "#", " ">>, <<"h", "2">>)
      [] st = "h1"          -> SubHeader(text, 1, <<"#", " ">>, <<"h", "1">>)
      [] st = "bold"        -> SubDelimited(text, 1, <<"*", "*">>, FALSE,
                                   Tag(<<"s", "t", "r", "o", "n", "g">>),
                                   EndTag(<<"s", "t", "r", "o", "n", "g">>))
      [] st = "italic_star" -> SubDelimited(text, 1, <<"*">>, FALSE,
                                   Tag(<<"e", "m">>), EndTag(<<"e", "m">>))
      [] st = "italic_us"   -> SubDelimited(text, 1, <<"_">>, FALSE,
                                   Tag(<<"e", "m">>), EndTag(<<"e", "m">>))
      [] st = "codeblock"   -> SubDelimited(text, 1, <<BQ, BQ, BQ>>, TRUE,
                                   <<"<", "p", "r", "e", ">", "<", "c", "o", "d", "e", ">">>,
                                   <<"<", "/", "c", "o", "d", "e", ">", "<", "/", "p", "r", "e", ">">>)
      [] st = "inlinecode"  -> SubInlineCode(text, 1)
      [] st = "links"       -> SubLinks(text, 1)
      [] st = "paragraphs"  -> Paragraphs(text)

RECURSIVE RunStages(_, _)
RunStages(k, text) ==
    IF k > Len(Stages) THEN text ELSE RunStages(k + 1, ApplyStage(Stages[k], text))

simple_markdown_to_html(text) == RunStages(1, text)

\* -------------------------------------------------------------- JSON values
\* A loaded JSON value: null (None), a number, a string (a text), or a dict
\* (a record whose DOMAIN is the keys present).
JNull == [t |-> "null"]

JNum(n) == [t |-> "num", n |-> n]

JStr(s) == [t |-> "str", s |-> s]

IsNull(v) == "t" \in DOMAIN v /\ v.t = "null"

IsNum(v) == "t" \in DOMAIN v /\ v.t = "num"

IsStr(v) == "t" \in DOMAIN v /\ v.t = "str"

\* Python truth value of a scalar
Truthy(v) ==
    CASE IsNull(v) -> FALSE
      [] IsNum(v)  -> v.n # 0
      [] IsStr(v)  -> v.s # <<>>
      [] OTHER     -> TRUE

\* dict.get(key, default)
Get(d, key, default) == IF key \in DOMAIN d THEN d[key] ELSE default

Digits == <<"0", "1", "2", "3", "4", "5", "6", "7", "8", "9">>

\* str(n) for an integer n >= 0
RECURSIVE NatStr(_)
NatStr(n) == IF n < 10 THEN <<Digits[n + 1]>> ELSE NatStr(n \div 10) \o <<Digits[(n % 10) + 1]>>

\* str(p)
PyStr(v) ==
    CASE IsNull(v) -> <<"N", "o", "n", "e">>
      [] IsNum(v)  -> IF v.n < 0 THEN <<"-">> \o NatStr(-v.n) ELSE NatStr(v.n)
      [] IsStr(v)  -> v.s

\* f"{v}" of a title: the text itself, or None
Display(v) == PyStr(v)

LowerChar(c) ==
    CASE c = "P" -> "p"
      [] c = "Y" -> "y"
      [] c = "R" -> "r"
      [] c = "T" -> "t"
      [] OTHER   -> c

\* str.lower()
Lower(s) == [k \in 1..Len(s) |-> LowerChar(s[k])]

\* sub in s
Contains(s, sub) == \E k \in 1..(Len(s) + 1) : StartsWithAt(s, k, sub)

Whitespace == {" ", NL, "\t"}

\* bool(text.strip())
StripNonEmpty(s) == \E k \in 1..Len(s) : s[k] \notin Whitespace

\* -------------------------------------------------- datetime.fromtimestamp
SecondsPerDay == 86400

\* zero-padded decimal of width w (%Y, %m, %d, %H, %M, %S)
RECURSIVE Pad(_, _)
Pad(n, w) == IF w = 0 THEN <<>> ELSE Pad(n \div 10, w - 1) \o <<Digits[(n % 10) + 1]>>

\* the civil date of day number d (days since 1970-01-01), for the days
\* from 1969-12-01 to 1970-02-28
CivilDate(d) ==
    IF d < 0 THEN <<1969, 12, 32 + d>>
    ELSE IF d < 31 THEN <<1970, 1, d + 1>>
    ELSE <<1970, 2, d - 30>>

\* strftime('%Y-%m-%d') of the local time at utc offset off
get_date_only(timestamp, off) ==
    LET ymd == CivilDate((timestamp + off) \div SecondsPerDay)
    IN  Pad(ymd[1], 4) \o <<"-">> \o Pad(ymd[2], 2) \o <<"-">> \o Pad(ymd[3], 2)

\* strftime('%Y-%m-%d %H:%M:%S')
format_timestamp(timestamp, off) ==
    LET sod == (timestamp + off) % SecondsPerDay
    IN  get_date_only(timestamp, off) \o <<" ">> \o Pad(sod \div 3600, 2) \o <<":">>
        \o Pad((sod % 3600) \div 60, 2) \o <<":">> \o Pad(sod % 60, 2)

\* ------------------------------------------------- generate_html: pieces
Untitled == <<"U", "n", "t", "i", "t", "l", "e", "d">>

Unknown == <<"U", "n", "k", "n", "o", "w", "n">>

UnknownDate == Unknown \o <<" ", "d", "a", "t", "e">>

\* a 0-based anchor, as enumerate(conversations) without the start would give
ConvIdZeroBased(idx) == <<"c", "o", "n", "v", "-">> \o NatStr(idx - 1)

\* conv_id = f"conv-{idx}"
ConvId(idx) == <<"c", "o", "n", "v", "-">> \o NatStr(idx)

\* html.escape(conv.get('title', 'Untitled')) raises AttributeError on None
TitleRaises(conv) == ~IsStr(Get(conv, "title", JStr(Untitled)))

EscTitle(conv) == HtmlEscape(Get(conv, "title", JStr(Untitled)).s)

\* format_timestamp(create_time) if create_time else <unknown>
TimeStr(conv, off, unknown) ==
    LET create_time == Get(conv, "create_time", JNum(0))
    IN  IF Truthy(create_time) THEN format_timestamp(create_time.n, off) ELSE unknown

\* one <li class="toc-item"> of the table of contents
TocEntry(idx, conv, off) ==
    [href  |-> <<"#">> \o ConvId(idx),
     num   |-> idx,
     title |-> EscTitle(conv),
     time  |-> TimeStr(conv, off, Unknown)]

\* the opening of one <div class="conversation">, its messages still to come
SectionHeader(idx, conv, off) ==
    [id       |-> ConvId(idx),
     num      |-> idx,
     title    |-> EscTitle(conv),
     date     |-> TimeStr(conv, off, UnknownDate),
     messages |-> <<>>]

\* ''.join([str(p) for p in parts]): no part dropped
RECURSIVE JoinEveryPart(_)
JoinEveryPart(parts) ==
    IF parts = <<>> THEN <<>> ELSE PyStr(Head(parts)) \o JoinEveryPart(Tail(parts))

\* ''.join([str(p) for p in parts if p])
RECURSIVE JoinParts(_)
JoinParts(parts) ==
    IF parts = <<>> THEN <<>>
    ELSE (IF Truthy(Head(parts)) THEN PyStr(Head(parts)) ELSE <<>>)
         \o JoinParts(Tail(parts))

\* the body of the loop over mapping.items(): the messages one node appends
NodeMessages(node) ==
    LET message == Get(node, "message", JNull)
    IN  IF IsNull(message) \/ IsNull(Get(message, "content", JNull)) THEN <<>>
        ELSE LET author  == Get(Get(message, "author", <<>>), "role", "unknown")
                 content == message.content
             IN  IF Get(content, "content_type", "") # "text" THEN <<>>
                 ELSE LET parts == Get(content, "parts", <<>>)
                          text  == JoinParts(parts)
                      IN  IF parts # <<>> /\ StripNonEmpty(text)
                          THEN << [role        |-> author,
                                   content     |-> text,
                                   create_time |-> Get(message, "create_time", JNum(0))] >>
                          ELSE <<>>

\* for node_id, node in mapping.items(): ...
RECURSIVE ExtractMessages(_)
ExtractMessages(mapping) ==
    IF mapping = <<>> THEN <<>>
    ELSE NodeMessages(Head(mapping).node) \o ExtractMessages(Tail(mapping))

\* messages.sort(...) compares every element of a list of two or more, and
\* comparing None raises TypeError
SortRaises(msgs) ==
    Len(msgs) >= 2 /\ \E k \in 1..Len(msgs) : ~IsNum(msgs[k].create_time)

\* an unstable insertion: the element goes before the elements of equal key
RECURSIVE InsertBeforeEqual(_, _)
InsertBeforeEqual(sorted, m) ==
    IF sorted = <<>> THEN <<m>>
    ELSE IF m.create_time.n <= Head(sorted).create_time.n THEN <<m>> \o sorted
    ELSE <<Head(sorted)>> \o InsertBeforeEqual(Tail(sorted), m)

\* list.sort is stable: an element goes after the elements whose key is not greater
RECURSIVE InsertByTime(_, _)
InsertByTime(sorted, m) ==
    IF sorted = <<>> THEN <<m>>
    ELSE IF m.create_time.n < Head(sorted).create_time.n THEN <<m>> \o sorted
    ELSE <<Head(sorted)>> \o InsertByTime(Tail(sorted), m)

RECURSIVE SortFrom(_, _)
SortFrom(sorted, rest) ==
    IF rest = <<>> THEN sorted
    ELSE SortFrom(InsertByTime(sorted, Head(rest)), Tail(rest))

\* messages.sort(key=lambda m: m['create_time'])
SortMessages(msgs) == IF Len(msgs) < 2 THEN msgs ELSE SortFrom(<<>>, msgs)

\* html.escape(role).upper(), for the roles of the model
RoleDisplay(role) ==
    CASE role = "user"      -> "USER"
      [] role = "assistant" -> "ASSISTANT"
      [] role = "system"    -> "SYSTEM"
      [] role = "tool"      -> "TOOL"
      [] role = "unknown"   -> "UNKNOWN"

\* one <div class="message ...">
RenderMessage(msg) ==
    [role_class   |-> IF msg.role \in {"user", "assistant", "system"} THEN msg.role ELSE "system",
     role_display |-> RoleDisplay(msg.role),
     content      |-> simple_markdown_to_html(msg.content)]

RenderMessages(msgs) == [k \in 1..Len(msgs) |-> RenderMessage(msgs[k])]

\* ------------------------------------------------------------------- state
VARIABLES
    args,            \* argparse result: isDir (is_dir() of data_folder), date, keyword
    tz,              \* utc offset of the local time zone, in seconds
    inputFile,       \* <data_folder>/conversations.json
    pc,              \* position in main / extract_by_date / generate_html
    conversations,   \* load_conversations' result
    matching_convs,  \* extract_by_date's list
    idx,             \* index of the loop at pc
    htmlArg,         \* generate_html's conversations argument
    toc,             \* table-of-contents entries of html_content so far
    sections,        \* conversation sections of html_content so far
    messages,        \* generate_html's messages list of the current conversation
    outJson,         \* extracted/<name>/conversations.json
    outHtml,         \* extracted/<name>/chat.html
    stdout,          \* lines printed
    stderr,          \* lines printed to sys.stderr
    exitCode,        \* process exit status, -1 while running
    raised,          \* the exception generate_html raised, "" if none
    mdSrc,           \* argument of a simple_markdown_to_html call run on its own
    mdText,          \* its local text
    mdStage          \* the stage it is about to run (index in Stages)

vars == <<args, tz, inputFile, pc, conversations, matching_convs, idx, htmlArg,
          toc, sections, messages, outJson, outHtml, stdout, stderr, exitCode,
          raised, mdSrc, mdText, mdStage>>

mainVars == <<args, tz, inputFile, conversations, matching_convs, outJson,
              stdout, stderr, exitCode>>

genVars == <<htmlArg, toc, sections, messages, outHtml, raised>>

mdVars == <<mdSrc, mdText, mdStage>>

NoFile == [written |-> FALSE]

\* ------------------------------------------------------------------ inputs
T(str) == JStr(str)

TextMsg(role, parts, ct) ==
    [author |-> [role |-> role],
     content |-> [content_type |-> "text", parts |-> parts],
     create_time |-> ct]

\* nodes of a mapping
NodePool ==
    { [children |-> <<>>],
      [message |-> JNull],
      [message |-> TextMsg("user", <<T(<<"a">>)>>, JNum(2))],
      [message |-> TextMsg("assistant", <<T(<<"*", "b", "*">>), T(<<"&">>)>>, JNum(1))],
      [message |-> [content |-> [content_type |-> "text", parts |-> <<T(<<"c">>)>>],
                    create_time |-> JNum(1)]],
      [message |-> [author |-> [role |-> "tool"],
                    content |-> [content_type |-> "text",
                                 parts |-> <<T(<<"d">>), JNum(0), JNull, JNum(7)>>]]],
      [message |-> TextMsg("user", <<T(<<" ">>), T(<<NL>>)>>, JNum(3))],
      [message |-> [author |-> [role |-> "assistant"],
                    content |-> [content_type |-> "code", parts |-> <<T(<<"x">>)>>],
                    create_time |-> JNum(3)]],
      [message |-> TextMsg("system", <<T(<<"e">>)>>, JNum(0))],
      [message |-> TextMsg("user", <<JNull, JNum(0)>>, JNum(3))],
      [message |-> TextMsg("user", <<T(<<"f">>)>>, JNull)],
      [message |-> TextMsg("assistant", <<>>, JNum(2))],
      [message |-> TextMsg("assistant", <<T(<<"g">>)>>, JNum(3))] }

\* a mapping is a dict in file order: its (node_id, node) items
MappingOf(nodes) == [k \in 1..Len(nodes) |-> [node_id |-> k, node |-> nodes[k]]]

RECURSIVE SeqsUpTo(_, _)
SeqsUpTo(S, n) ==
    IF n = 0 THEN {<<>>}
    ELSE LET shorter == SeqsUpTo(S, n - 1)
         IN  shorter \cup {Append(q, x) : q \in {r \in shorter : Len(r) = n - 1}, x \in S}

Mappings == {MappingOf(nodes) : nodes \in SeqsUpTo(NodePool, MaxNodes)}

M1 == MappingOf(<< [message |-> TextMsg("user", <<T(<<"a">>)>>, JNum(2))],
                   [message |-> TextMsg("assistant", <<T(<<"*", "b", "*">>), T(<<"&">>)>>, JNum(1))] >>)

M2 == MappingOf(<< [message |-> TextMsg("user", <<T(<<"f">>)>>, JNull)],
                   [message |-> TextMsg("system", <<T(<<"e">>)>>, JNum(0))] >>)

\* conversation records of the input file (their id is added by position)
ConvPool ==
    { [title |-> T(<<"P", "y">>), create_time |-> JNum(3600), mapping |-> M1],
      [title |-> T(<<"R", "&">>), create_time |-> JNum(86410), mapping |-> <<>>],
      [title |-> T(<<"t", "i", "p", "Y">>), create_time |-> JNum(86399), mapping |-> M1],
      [title |-> T(<<"P", "y">>), create_time |-> JNum(0), mapping |-> <<>>],
      [title |-> JNull, create_time |-> JNum(3600), mapping |-> <<>>],
      [mapping |-> M1],
      [create_time |-> JNum(90000), mapping |-> M2] }

WithId(conv, i) ==
    [k \in DOMAIN conv \cup {"id"} |-> IF k = "id" THEN JNum(i) ELSE conv[k]]

ConvLists ==
    {[i \in 1..Len(cs) |-> WithId(cs[i], i)] : cs \in SeqsUpTo(ConvPool, MaxConvs)}

InputFiles ==
    {[kind |-> k] : k \in {"missing", "unreadable", "undecodable", "malformed"}}
    \cup {[kind |-> "json", islist |-> FALSE]}
    \cup {[kind |-> "json", islist |-> TRUE, data |-> cs] : cs \in ConvLists}

Date(y, m, d) == Pad(y, 4) \o <<"-">> \o Pad(m, 2) \o <<"-">> \o Pad(d, 2)

\* values of --date: absent, two dates, and a date that is not zero-padded
DateArgs ==
    {JNull, T(Date(1970, 1, 1)), T(Date(1970, 1, 2)),
     T(<<"1", "9", "7", "0", "-", "1", "-", "1">>)}

\* values of --keyword: absent, empty, and keywords in several cases
KeywordArgs == {JNull, T(<<>>), T(<<"p", "y">>), T(<<"P", "Y">>), T(<<"Y">>)}

UtcOffsets == {0, -18000}

\* ------------------------------------------------------------ process exit
Emit(out, line) == Append(out, line)

\* sys.exit(code) after a diagnostic on sys.stderr
ExitWith(code, line) ==
    /\ stderr' = Emit(stderr, line)
    /\ exitCode' = code
    /\ pc' = "exit"

\* an exception nothing catches: the interpreter prints the traceback on
\* sys.stderr and exits with status 1
Uncaught(exc) == ExitWith(1, [text |-> "Traceback (most recent call last)", exc |-> exc])

\* --------------------------------------------------------------------- main
\* parser.error(...) prints the usage and the message on stderr and exits 2
ParseArgs ==
    /\ pc = "start"
    /\ IF ~args.isDir
       THEN ExitWith(2, [text |-> "error: Data folder does not exist: {data_folder}"])
       ELSE IF Truthy(args.keyword) /\ ~Truthy(args.date)
       THEN ExitWith(2, [text |-> "error: --keyword can only be used with --date"])
       ELSE pc' = "load" /\ UNCHANGED <<stderr, exitCode>>
    /\ UNCHANGED <<args, tz, inputFile, conversations, matching_convs, idx, outJson, stdout>>
    /\ UNCHANGED <<genVars, mdVars>>

\* the lenient load_conversations that returns [] for a bad file
LoadResultLenient(file) ==
    IF file.kind = "json" /\ file.islist
    THEN [ok |-> TRUE, conversations |-> file.data]
    ELSE [ok |-> TRUE, conversations |-> <<>>]

\* load_conversations: what open() and json.load() do with the file
LoadResult(file) ==
    CASE file.kind = "missing" ->
           [ok |-> FALSE, caught |-> TRUE, exc |-> "FileNotFoundError",
            line |-> [text |-> "Error: File not found: {conversations_file}"]]
      [] file.kind = "malformed" ->
           [ok |-> FALSE, caught |-> TRUE, exc |-> "JSONDecodeError",
            line |-> [text |-> "Error: Invalid JSON in file: {e}"]]
      [] file.kind = "unreadable" ->
           [ok |-> FALSE, caught |-> FALSE, exc |-> "PermissionError"]
      [] file.kind = "undecodable" ->
           [ok |-> FALSE, caught |-> FALSE, exc |-> "UnicodeDecodeError"]
      [] file.kind = "json" ->
           [ok |-> TRUE,
            conversations |-> IF file.islist THEN file.data ELSE <<>>]

LoadConversations ==
    /\ pc = "load"
    /\ LET r == LoadResult(inputFile)
       IN  IF r.ok
           THEN /\ conversations' = r.conversations
                /\ pc' = "dispatch"
                /\ UNCHANGED <<stderr, exitCode>>
           ELSE /\ IF r.caught THEN ExitWith(1, r.line) ELSE Uncaught(r.exc)
                /\ UNCHANGED conversations
    /\ UNCHANGED <<args, tz, inputFile, matching_convs, idx, outJson, stdout>>
    /\ UNCHANGED <<genVars, mdVars>>

\* --------------------------------------------------------------- list_dates
Ord(c) == CHOOSE k \in 0..10 : (k < 10 /\ c = Digits[k + 1]) \/ (k = 10 /\ c = "-")

\* a < b for two date strings, as str compares
LexLess(a, b) ==
    \E k \in 1..Len(a) :
        /\ k <= Len(b)
        /\ \A j \in 1..(k - 1) : a[j] = b[j]
        /\ Ord(a[k]) < Ord(b[k])

\* sorted(dates.keys())
RECURSIVE SortedDates(_)
SortedDates(S) ==
    IF S = {} THEN <<>>
    ELSE LET least == CHOOSE d \in S : \A e \in S \ {d} : LexLess(d, e)
         IN  <<least>> \o SortedDates(S \ {least})

HasTime(conv) == Truthy(Get(conv, "create_time", JNum(0)))

ConvDate(conv, off) == get_date_only(conv.create_time.n, off)

\* dates[date]
DateGroup(convs, date, off) ==
    SelectSeq(convs, LAMBDA c : HasTime(c) /\ ConvDate(c, off) = date)

FirstTwo(convs) == Slice(convs, 1, IF Len(convs) < 2 THEN Len(convs) ELSE 2)

\* c.get('title', 'Untitled')[:30] raises TypeError on None
RowRaises(convs) ==
    \E k \in 1..Len(FirstTwo(convs)) : ~IsStr(Get(convs[k], "title", JStr(Untitled)))

Title30(conv) ==
    LET title == Get(conv, "title", JStr(Untitled)).s
    IN  Slice(title, 1, IF Len(title) < 30 THEN Len(title) ELSE 30)

\* ', '.join([...]) and the '...' of a group of more than two
SampleTitles(convs) ==
    (IF Len(convs) = 0 THEN <<>>
     ELSE IF Len(convs) = 1 THEN Title30(convs[1])
     ELSE Title30(convs[1]) \o <<",", " ">> \o Title30(convs[2]))
    \o (IF Len(convs) > 2 THEN <<".", ".", ".">> ELSE <<>>)

DateRow(convs, date, off) ==
    LET group == DateGroup(convs, date, off)
    IN  [text |-> "{date:<15} {len(convs):<10} {sample_titles}",
         date |-> date, count |-> Len(group), sample_titles |-> SampleTitles(group)]

\* the rows printed before the first one that raises, and whether one raises
RECURSIVE DateRows(_, _, _)
DateRows(convs, dates, off) ==
    IF dates = <<>> THEN [rows |-> <<>>, raises |-> FALSE]
    ELSE IF RowRaises(DateGroup(convs, Head(dates), off))
    THEN [rows |-> <<>>, raises |-> TRUE]
    ELSE LET rest == DateRows(convs, Tail(dates), off)
         IN  [rows |-> <<DateRow(convs, Head(dates), off)>> \o rest.rows,
              raises |-> rest.raises]

ListDates ==
    /\ pc = "dispatch"
    /\ ~Truthy(args.date)
    /\ IF conversations = <<>>
       THEN /\ stdout' = Emit(stdout, [text |-> "No conversations found in the export folder."])
            /\ pc' = "done"
            /\ exitCode' = 0
            /\ UNCHANGED stderr
       ELSE LET dates == SortedDates({ConvDate(conversations[k], tz) :
                             k \in {j \in 1..Len(conversations) : HasTime(conversations[j])}})
                r == DateRows(conversations, dates, tz)
            IN  /\ stdout' = stdout
                     \o << [text |-> "Found {len(conversations)} conversation(s) across {len(sorted_dates)} date(s):",
                            conversations |-> Len(conversations), dates |-> Len(dates)],
                           [text |-> "Date Count Sample Titles"],
                           [text |-> "-" ] >>
                     \o r.rows
                /\ IF r.raises THEN Uncaught("TypeError")
                   ELSE pc' = "done" /\ exitCode' = 0 /\ UNCHANGED stderr
    /\ UNCHANGED <<args, tz, inputFile, conversations, matching_convs, idx, outJson>>
    /\ UNCHANGED <<genVars, mdVars>>

\* ---------------------------------------------------------- extract_by_date
\* keyword in title, the case of neither folded
KeywordInTitleCaseSensitive(title, keyword) == Contains(title, keyword)

\* keyword.lower() in title, with title = conv.get('title', '').lower()
KeywordInTitle(title, keyword) == Contains(Lower(title), Lower(keyword))

\* what one pass of the filter loop does with conv: "append", "skip" or "raise"
\* (None has no lower(): AttributeError)
FilterOutcome(conv, target_date, keyword, off) ==
    LET timestamp == Get(conv, "create_time", JNum(0))
    IN  IF Truthy(timestamp) /\ get_date_only(timestamp.n, off) = target_date.s
        THEN IF Truthy(keyword)
             THEN LET title == Get(conv, "title", JStr(<<>>))
                  IN  IF ~IsStr(title) THEN "raise"
                      ELSE IF KeywordInTitle(title.s, keyword.s) THEN "append"
                      ELSE "skip"
             ELSE "append"
        ELSE "skip"

\* matching_convs.insert(0, conv)
PrependMatch(list, conv) == <<conv>> \o list

\* matching_convs.append(conv)
AppendMatch(list, conv) == Append(list, conv)

BeginExtract ==
    /\ pc = "dispatch"
    /\ Truthy(args.date)
    /\ matching_convs' = <<>>
    /\ idx' = 1
    /\ pc' = "filter"
    /\ UNCHANGED <<args, tz, inputFile, conversations, outJson, stdout, stderr, exitCode>>
    /\ UNCHANGED <<genVars, mdVars>>

FilterStep ==
    /\ pc = "filter"
    /\ idx <= Len(conversations)
    /\ LET conv == conversations[idx]
           what == FilterOutcome(conv, args.date, args.keyword, tz)
       IN  IF what = "raise"
           THEN Uncaught("AttributeError") /\ UNCHANGED <<matching_convs, idx>>
           ELSE /\ matching_convs' = IF what = "append" THEN AppendMatch(matching_convs, conv)
                                     ELSE matching_convs
                /\ idx' = idx + 1
                /\ UNCHANGED <<pc, stderr, exitCode>>
    /\ UNCHANGED <<args, tz, inputFile, conversations, outJson, stdout>>
    /\ UNCHANGED <<genVars, mdVars>>

\* the line without the keyword, whatever the filter
NoMatchLinePlain(target_date, keyword) ==
    [text |-> "No conversations found for date: {target_date}",
     target_date |-> target_date.s]

\* the line printed when nothing matches
NoMatchLine(target_date, keyword) ==
    IF Truthy(keyword)
    THEN [text |-> "No conversations found for date: {target_date} with keyword: '{keyword}'",
          target_date |-> target_date.s, keyword |-> keyword.s]
    ELSE [text |-> "No conversations found for date: {target_date}",
          target_date |-> target_date.s]

\* if not matching_convs: print(...); sys.exit(1)
NoMatchExit ==
    /\ pc = "filter"
    /\ idx > Len(conversations)
    /\ matching_convs = <<>>
    /\ stdout' = Emit(stdout, NoMatchLine(args.date, args.keyword))
    /\ exitCode' = 1
    /\ pc' = "exit"
    /\ UNCHANGED <<args, tz, inputFile, conversations, matching_convs, idx, outJson, stderr>>
    /\ UNCHANGED <<genVars, mdVars>>

\* output_folder.mkdir(parents=True, exist_ok=True)
MakeOutputFolder ==
    /\ pc = "filter"
    /\ idx > Len(conversations)
    /\ matching_convs # <<>>
    /\ pc' = "write_json"
    /\ UNCHANGED <<args, tz, inputFile, conversations, matching_convs, idx, outJson,
                   stdout, stderr, exitCode>>
    /\ UNCHANGED <<genVars, mdVars>>

\* mkdir raises OSError, which nothing catches
MakeOutputFolderFails ==
    /\ pc = "filter"
    /\ idx > Len(conversations)
    /\ matching_convs # <<>>
    /\ Uncaught("OSError")
    /\ UNCHANGED <<args, tz, inputFile, conversations, matching_convs, idx, outJson, stdout>>
    /\ UNCHANGED <<genVars, mdVars>>

\* json.dump(matching_convs, f, ...), the two lines printed after it, and the
\* call generate_html(matching_convs, output_html)
WriteJson ==
    /\ pc = "write_json"
    /\ outJson' = [written |-> TRUE, convs |-> matching_convs]
    /\ stdout' = stdout
         \o << [text |-> "Extracted {len(matching_convs)} conversation(s) for {target_date}{filter_msg}",
                count |-> Len(matching_convs), target_date |-> args.date.s,
                keyword |-> IF Truthy(args.keyword) THEN args.keyword ELSE JNull],
               [text |-> "Output: {output_json}"] >>
    /\ htmlArg' = matching_convs
    /\ toc' = <<>>
    /\ sections' = <<>>
    /\ idx' = 1
    /\ pc' = "gen_toc"
    /\ UNCHANGED <<args, tz, inputFile, conversations, matching_convs, stderr, exitCode>>
    /\ UNCHANGED <<messages, outHtml, raised, mdVars>>

\* a file that open() created and a failed write left incomplete
PartialFile == [written |-> FALSE, partial |-> TRUE]

\* except IOError: print(..., file=sys.stderr); sys.exit(1); open() failed, or
\* json.dump() failed part-way
WriteJsonFails ==
    /\ pc = "write_json"
    /\ ExitWith(1, [text |-> "Error writing JSON file: {e}"])
    /\ outJson' \in {outJson, PartialFile}
    /\ UNCHANGED <<args, tz, inputFile, conversations, matching_convs, idx, stdout>>
    /\ UNCHANGED <<genVars, mdVars>>

\* ------------------------------------------------------------ generate_html
Raise(exc) == raised' = exc /\ pc' = "gen_raised"

\* one pass of the table-of-contents loop
TocStep ==
    /\ pc = "gen_toc"
    /\ idx <= Len(htmlArg)
    /\ IF TitleRaises(htmlArg[idx])
       THEN Raise("AttributeError") /\ UNCHANGED <<toc, idx>>
       ELSE /\ toc' = Append(toc, TocEntry(idx, htmlArg[idx], tz))
            /\ idx' = idx + 1
            /\ UNCHANGED <<pc, raised>>
    /\ UNCHANGED <<mainVars, htmlArg, sections, messages, outHtml, mdVars>>

TocDone ==
    /\ pc = "gen_toc"
    /\ idx > Len(htmlArg)
    /\ idx' = 1
    /\ pc' = "gen_section"
    /\ UNCHANGED <<mainVars, genVars, mdVars>>

\* one pass of the conversation loop, up to the section's header
SectionStart ==
    /\ pc = "gen_section"
    /\ idx <= Len(htmlArg)
    /\ IF TitleRaises(htmlArg[idx])
       THEN Raise("AttributeError") /\ UNCHANGED sections
       ELSE /\ sections' = Append(sections, SectionHeader(idx, htmlArg[idx], tz))
            /\ pc' = "gen_extract"
            /\ UNCHANGED raised
    /\ UNCHANGED <<mainVars, htmlArg, toc, idx, messages, outHtml, mdVars>>

\* the loop over mapping.items()
Extract ==
    /\ pc = "gen_extract"
    /\ messages' = ExtractMessages(Get(htmlArg[idx], "mapping", <<>>))
    /\ pc' = "gen_sort"
    /\ UNCHANGED <<mainVars, htmlArg, toc, sections, idx, outHtml, raised, mdVars>>

Sort ==
    /\ pc = "gen_sort"
    /\ IF SortRaises(messages)
       THEN Raise("TypeError") /\ UNCHANGED messages
       ELSE /\ messages' = SortMessages(messages)
            /\ pc' = "gen_render"
            /\ UNCHANGED raised
    /\ UNCHANGED <<mainVars, htmlArg, toc, sections, idx, outHtml, mdVars>>

\* the loop over the sorted messages, and the section's closing </div>
Render ==
    /\ pc = "gen_render"
    /\ sections' = [sections EXCEPT ![idx].messages = RenderMessages(messages)]
    /\ idx' = idx + 1
    /\ pc' = "gen_section"
    /\ UNCHANGED <<mainVars, htmlArg, toc, messages, outHtml, raised, mdVars>>

SectionsDone ==
    /\ pc = "gen_section"
    /\ idx > Len(htmlArg)
    /\ pc' = "gen_write"
    /\ UNCHANGED <<mainVars, genVars, idx, mdVars>>

\* with open(output_file, 'w') as f: f.write(html_content)
WriteHtml ==
    /\ pc = "gen_write"
    /\ outHtml' = [written |-> TRUE, total |-> Len(htmlArg), toc |-> toc, sections |-> sections]
    /\ pc' = "gen_returned"
    /\ UNCHANGED <<mainVars, htmlArg, toc, sections, messages, raised, idx, mdVars>>

\* open() or write() raises OSError
WriteHtmlFails ==
    /\ pc = "gen_write"
    /\ Raise("OSError")
    /\ outHtml' \in {outHtml, PartialFile}
    /\ UNCHANGED <<mainVars, htmlArg, toc, sections, messages, idx, mdVars>>

\* ------------------------------------- extract_by_date, after generate_html
\* a handler that catches IOError only
CaughtIOErrorOnly(exc) == exc \in {"OSError"}

\* except Exception as e
Caught(exc) == exc \in {"OSError", "TypeError", "AttributeError"}

HtmlGenerated ==
    /\ pc = "gen_returned"
    /\ stdout' = Emit(stdout, [text |-> "Generated: {output_html}"])
    /\ pc' = "summary_head"
    /\ UNCHANGED <<args, tz, inputFile, conversations, matching_convs, idx, outJson,
                   stderr, exitCode>>
    /\ UNCHANGED <<genVars, mdVars>>

HtmlFailed ==
    /\ pc = "gen_raised"
    /\ IF Caught(raised)
       THEN /\ stderr' = Emit(stderr, [text |-> "Warning: Could not generate HTML: {e}", e |-> raised])
            /\ pc' = "summary_head"
            /\ UNCHANGED exitCode
       ELSE Uncaught(raised)
    /\ UNCHANGED <<args, tz, inputFile, conversations, matching_convs, idx, outJson, stdout>>
    /\ UNCHANGED <<genVars, mdVars>>

SummaryHead ==
    /\ pc = "summary_head"
    /\ stdout' = Emit(stdout, [text |-> "Summary:"])
    /\ idx' = 1
    /\ pc' = "summary"
    /\ UNCHANGED <<args, tz, inputFile, conversations, matching_convs, outJson, stderr, exitCode>>
    /\ UNCHANGED <<genVars, mdVars>>

SummaryLine(i, conv, off) ==
    [text     |-> "  {idx}. [{time_str}] {title}",
     idx      |-> i,
     time_str |-> TimeStr(conv, off, Unknown),
     title    |-> Display(Get(conv, "title", JStr(Untitled)))]

SummaryStep ==
    /\ pc = "summary"
    /\ idx <= Len(matching_convs)
    /\ stdout' = Emit(stdout, SummaryLine(idx, matching_convs[idx], tz))
    /\ idx' = idx + 1
    /\ UNCHANGED <<args, tz, inputFile, conversations, matching_convs, outJson, stderr,
                   exitCode, pc>>
    /\ UNCHANGED <<genVars, mdVars>>

\* extract_by_date and main return: the process exits with status 0
Finish ==
    /\ pc = "summary"
    /\ idx > Len(matching_convs)
    /\ exitCode' = 0
    /\ pc' = "done"
    /\ UNCHANGED <<args, tz, inputFile, conversations, matching_convs, idx, outJson,
                   stdout, stderr>>
    /\ UNCHANGED <<genVars, mdVars>>

\* ------------------------------------------ simple_markdown_to_html, staged
\* text = <stage>(text)
StageStep(st) ==
    /\ pc = "md"
    /\ mdStage <= Len(Stages)
    /\ Stages[mdStage] = st
    /\ mdText' = ApplyStage(st, mdText)
    /\ mdStage' = mdStage + 1
    /\ UNCHANGED <<mainVars, genVars, pc, idx, mdSrc>>

CleanMarkup == StageStep("clean")

EscapeHtml == StageStep("escape")

Header3 == StageStep("h3")

Header2 == StageStep("h2")

Header1 == StageStep("h1")

Bold == StageStep("bold")

ItalicStar == StageStep("italic_star")

ItalicUnderscore == StageStep("italic_us")

CodeBlock == StageStep("codeblock")

InlineCode == StageStep("inlinecode")

Links == StageStep("links")

Paragraphing == StageStep("paragraphs")

\* ----------------------------------------------------------- specifications
IdleGen ==
    /\ htmlArg = <<>>
    /\ toc = <<>>
    /\ sections = <<>>
    /\ messages = <<>>
    /\ outHtml = NoFile
    /\ raised = ""

IdleMd ==
    /\ mdSrc = <<>>
    /\ mdText = <<>>
    /\ mdStage = 0

\* a run of main: python chat_extract.py data_folder [-d date] [-k keyword]
Init ==
    /\ args \in [isDir : BOOLEAN, date : DateArgs, keyword : KeywordArgs]
    /\ tz \in UtcOffsets
    /\ inputFile \in InputFiles
    /\ ~args.isDir => inputFile.kind = "missing"
    /\ pc = "start"
    /\ conversations = <<>>
    /\ matching_convs = <<>>
    /\ idx = 0
    /\ outJson = NoFile
    /\ stdout = <<>>
    /\ stderr = <<>>
    /\ exitCode = -1
    /\ IdleGen
    /\ IdleMd

GenerateHtml ==
    \/ TocStep
    \/ TocDone
    \/ SectionStart
    \/ Extract
    \/ Sort
    \/ Render
    \/ SectionsDone
    \/ WriteHtml
    \/ WriteHtmlFails

Next ==
    \/ ParseArgs
    \/ LoadConversations
    \/ ListDates
    \/ BeginExtract
    \/ FilterStep
    \/ NoMatchExit
    \/ MakeOutputFolder
    \/ MakeOutputFolderFails
    \/ WriteJson
    \/ WriteJsonFails
    \/ GenerateHtml
    \/ HtmlGenerated
    \/ HtmlFailed
    \/ SummaryHead
    \/ SummaryStep
    \/ Finish

Spec == Init /\ [][Next]_vars

\* a call generate_html([conv], output_file) on its own
HtmlConvs ==
    {[title |-> T(<<"R", "&">>), create_time |-> JNum(3600), mapping |-> m] : m \in Mappings}

InitHtml ==
    /\ args = [isDir |-> TRUE, date |-> JNull, keyword |-> JNull]
    /\ tz = 0
    /\ inputFile = [kind |-> "missing"]
    /\ pc = "gen_toc"
    /\ conversations = <<>>
    /\ matching_convs = <<>>
    /\ idx = 1
    /\ outJson = NoFile
    /\ stdout = <<>>
    /\ stderr = <<>>
    /\ exitCode = -1
    /\ htmlArg \in {<<c>> : c \in HtmlConvs}
    /\ toc = <<>>
    /\ sections = <<>>
    /\ messages = <<>>
    /\ outHtml = NoFile
    /\ raised = ""
    /\ IdleMd

SpecHtml == InitHtml /\ [][GenerateHtml]_vars

\* the pieces texts are made of: markdown markers, characters html.escape
\* rewrites, and the private-use markup
Tokens ==
    { <<"&">>, <<"<">>, <<"*">>, <<"*", "*">>, <<"_">>, <<BQ>>, <<"a">>, <<NL>>,
      <<"#", " ">>, <<"[", "a", "]", "(">>, <<")">>,
      CiteOpen, <<"E201">>, EntityOpen \o <<"a", "]">> }

MdInputs == {Concat(ts) : ts \in SeqsUpTo(Tokens, MaxTok)}

\* a call simple_markdown_to_html(text) on its own
InitMd ==
    /\ args = [isDir |-> TRUE, date |-> JNull, keyword |-> JNull]
    /\ tz = 0
    /\ inputFile = [kind |-> "missing"]
    /\ pc = "md"
    /\ conversations = <<>>
    /\ matching_convs = <<>>
    /\ idx = 0
    /\ outJson = NoFile
    /\ stdout = <<>>
    /\ stderr = <<>>
    /\ exitCode = -1
    /\ IdleGen
    /\ mdSrc \in MdInputs
    /\ mdText = mdSrc
    /\ mdStage = 1

NextMd ==
    \/ CleanMarkup
    \/ EscapeHtml
    \/ Header3
    \/ Header2
    \/ Header1
    \/ Bold
    \/ ItalicStar
    \/ ItalicUnderscore
    \/ CodeBlock
    \/ InlineCode
    \/ Links
    \/ Paragraphing

SpecMd == InitMd /\ [][NextMd]_vars

\* =================================================================== claims
Last(q) == q[Len(q)]

\* the i-th smallest element of a set of numbers
Nth(S, i) == CHOOSE k \in S : Cardinality({j \in S : j < k}) = i - 1

\* the subsequence of q at the indices in S, in order
SubseqAt(q, S) == [i \in 1..Cardinality(S) |-> q[Nth(S, i)]]

Injections(n) == {p \in [1..n -> 1..n] : \A i, j \in 1..n : p[i] = p[j] => i = j}

TimeOf(m) == m.create_time.n

\* after is before reordered by ascending create_time, equal times keeping
\* their order in before
StableTimeOrder(before_, after) ==
    /\ Len(after) = Len(before_)
    /\ IF Len(before_) < 2 THEN after = before_
       ELSE \E p \in Injections(Len(before_)) :
              /\ \A i \in 1..Len(after) : after[i] = before_[p[i]]
              /\ \A i, j \in 1..Len(after) :
                    i < j => /\ TimeOf(after[i]) <= TimeOf(after[j])
                             /\ TimeOf(after[i]) = TimeOf(after[j]) => p[i] < p[j]
                             /\ ~(TimeOf(after[i]) > 0 /\ TimeOf(after[j]) = 0)

\* C1: the messages of a conversation are rendered in ascending create_time
\* order: sorting takes the messages in mapping order to the same messages
\* stably ordered by create_time (absent counted as 0, so before every positive
\* time), and the section's message blocks are the sorted messages, one block
\* each, in that order.
C1_RenderedInTimeOrder ==
    [][ /\ (pc = "gen_sort" /\ pc' = "gen_render") => StableTimeOrder(messages, messages')
        /\ (pc = "gen_render" /\ pc' = "gen_section") =>
              /\ Len(sections'[idx].messages) = Len(messages)
              /\ \A k \in 1..Len(messages) :
                    sections'[idx].messages[k].content = simple_markdown_to_html(messages[k].content)
      ]_vars

\* C1 witness: three messages, two of equal time and one of time 0, that the
\* sort had to reorder, are about to be rendered.
C1_Witness ==
    /\ pc = "gen_render"
    /\ Len(messages) >= 3
    /\ \E i, j \in 1..Len(messages) : i # j /\ TimeOf(messages[i]) = TimeOf(messages[j])
    /\ \E i, j \in 1..Len(messages) : TimeOf(messages[i]) = 0 /\ TimeOf(messages[j]) > 0
    /\ messages # ExtractMessages(htmlArg[idx].mapping)

\* the parts of a message joined: every part when every is TRUE, the parts
\* that are not falsy otherwise
Joined(parts, every) ==
    Concat([k \in 1..Len(parts) |->
              IF every \/ Truthy(parts[k]) THEN PyStr(parts[k]) ELSE <<>>])

PartsOf(node) ==
    IF "parts" \in DOMAIN node.message.content THEN node.message.content.parts ELSE <<>>

Renderable(node, every) ==
    /\ "message" \in DOMAIN node
    /\ ~IsNull(node.message)
    /\ "content" \in DOMAIN node.message
    /\ "content_type" \in DOMAIN node.message.content
    /\ node.message.content.content_type = "text"
    /\ StripNonEmpty(Joined(PartsOf(node), every))

RenderedMessageOf(node, every) ==
    [role        |-> IF "author" \in DOMAIN node.message /\ "role" \in DOMAIN node.message.author
                     THEN node.message.author.role ELSE "unknown",
     content     |-> Joined(PartsOf(node), every),
     create_time |-> IF "create_time" \in DOMAIN node.message
                     THEN node.message.create_time ELSE JNum(0)]

\* the messages the nodes of mapping emit, in mapping order
EmittedBy(mapping, every) ==
    LET R == {k \in 1..Len(mapping) : Renderable(mapping[k].node, every)}
    IN  [i \in 1..Cardinality(R) |-> RenderedMessageOf(mapping[Nth(R, i)].node, every)]

\* C9 (as stated): a node emits a message iff it has a text message whose parts,
\* every one stringified and none omitted, join to a non-blank string; the
\* content is that join, the role defaults to "unknown", create_time to 0.
C9_EveryPartJoined ==
    pc = "gen_sort" => messages = EmittedBy(htmlArg[idx].mapping, TRUE)

\* C9 (amended): as C9, with the falsy parts (empty string, None, 0) dropped
\* before the parts are stringified and joined.
C9_TruthyPartsJoined ==
    pc = "gen_sort" => messages = EmittedBy(htmlArg[idx].mapping, FALSE)

\* C9 witness: a message with falsy non-string parts and no author was emitted.
C9_Witness ==
    /\ pc = "gen_sort"
    /\ \E k \in 1..Len(messages) : messages[k].content = <<"d", "7">>
    /\ \E k \in 1..Len(messages) : messages[k].role = "unknown"

\* the anchor of the i-th conversation, conv-i
Anchor(i) == <<"c", "o", "n", "v", "-", Digits[i + 1]>>

\* C7: the written document has one table-of-contents entry and one section per
\* conversation, in input order; the i-th entry links to #conv-i and the i-th
\* section has id conv-i, so each link targets exactly one section and the
\* section ids are distinct.
C7_TocMatchesSections ==
    outHtml.written =>
        LET n == Len(htmlArg)
        IN  /\ outHtml.total = n
            /\ Len(outHtml.toc) = n
            /\ Len(outHtml.sections) = n
            /\ \A i \in 1..n :
                  /\ outHtml.toc[i].href = <<"#">> \o Anchor(i)
                  /\ outHtml.sections[i].id = Anchor(i)
                  /\ outHtml.toc[i].title = HtmlEscape(Get(htmlArg[i], "title", JStr(Untitled)).s)
                  /\ outHtml.sections[i].title = outHtml.toc[i].title
                  /\ Cardinality({j \in 1..n :
                        <<"#">> \o outHtml.sections[j].id = outHtml.toc[i].href}) = 1
            /\ \A i, j \in 1..n : i # j => outHtml.sections[i].id # outHtml.sections[j].id

\* C7 witness: a document of two or more conversations was written.
C7_Witness == outHtml.written /\ Len(outHtml.toc) >= 2

\* the conversation's create_time is non-zero and on the target local date
OnTargetDate(conv) ==
    /\ "create_time" \in DOMAIN conv
    /\ IsNum(conv.create_time)
    /\ conv.create_time.n # 0
    /\ get_date_only(conv.create_time.n, tz) = args.date.s

\* kw occurs in title when case is ignored
OccursIgnoringCase(title, kw) ==
    \E k \in 0..(Len(title) - Len(kw)) :
        \A j \in 1..Len(kw) : LowerChar(title[k + j]) = LowerChar(kw[j])

KeywordGiven == IsStr(args.keyword) /\ args.keyword.s # <<>>

Selected(conv) ==
    /\ OnTargetDate(conv)
    /\ KeywordGiven =>
          /\ "title" \in DOMAIN conv
          /\ IsStr(conv.title)
          /\ OccursIgnoringCase(conv.title.s, args.keyword.s)

\* the subsequence of the input conversations the filter selects
ExpectedExtract ==
    SubseqAt(inputFile.data, {i \in 1..Len(inputFile.data) : Selected(inputFile.data[i])})

\* C2: what is written to conversations.json and passed to generate_html is
\* exactly the subsequence of the input conversations, in input order, whose
\* create_time is non-zero and on the target date and, when a keyword is given,
\* whose title contains the keyword case-insensitively.
C2_ExtractIsFilteredSubsequence ==
    outJson.written =>
        /\ outJson.convs = ExpectedExtract
        /\ htmlArg = ExpectedExtract
        /\ \A i, j \in 1..Len(outJson.convs) :
              i < j => outJson.convs[i].id.n < outJson.convs[j].id.n

\* C2 witness: a keyword in another case than the title's selected some, not
\* all, of the input conversations.
C2_Witness ==
    /\ outJson.written
    /\ args.keyword = JStr(<<"P", "Y">>)
    /\ Len(outJson.convs) >= 1
    /\ Len(outJson.convs) < Len(inputFile.data)

\* the filter loop ended with nothing selected and the process exited
NoMatchExited ==
    /\ pc = "exit"
    /\ Truthy(args.date)
    /\ idx > Len(conversations)
    /\ matching_convs = <<>>

NothingProduced ==
    /\ outJson = NoFile
    /\ outHtml = NoFile
    /\ htmlArg = <<>>
    /\ Len(stdout) = 1

\* past the no-match check of extract_by_date
PastNoMatchCheck ==
    pc \in {"write_json", "gen_toc", "gen_section", "gen_extract", "gen_sort", "gen_render",
            "gen_write", "gen_returned", "gen_raised", "summary_head", "summary"}

\* C3 (as stated): when nothing matches, the line printed is
\* "No conversations found for date: <date>", the exit status is non-zero, and
\* the folder creation, the JSON write, the HTML generation and the summary
\* are not reached.
C3_PlainNoMatchLine ==
    /\ NoMatchExited =>
          /\ Last(stdout) = [text |-> "No conversations found for date: {target_date}",
                             target_date |-> args.date.s]
          /\ exitCode > 0
          /\ NothingProduced
    /\ PastNoMatchCheck => matching_convs # <<>>

\* C3 (amended): as C3, the line being "No conversations found for date:
\* <date>" when no keyword was given and "No conversations found for date:
\* <date> with keyword: '<keyword>'" when one was.
C3_NoMatchLineNamesKeyword ==
    /\ NoMatchExited =>
          /\ Last(stdout) =
                IF KeywordGiven
                THEN [text |-> "No conversations found for date: {target_date} with keyword: '{keyword}'",
                      target_date |-> args.date.s, keyword |-> args.keyword.s]
                ELSE [text |-> "No conversations found for date: {target_date}",
                      target_date |-> args.date.s]
          /\ exitCode > 0
          /\ NothingProduced
    /\ PastNoMatchCheck => matching_convs # <<>>

\* C3 witness: conversations were loaded, a keyword was given, nothing matched.
C3_Witness == NoMatchExited /\ KeywordGiven /\ Len(conversations) >= 2

\* stdout ends with the summary: "Summary:" and one line per extracted conversation
SummaryPrinted ==
    \E h \in 1..Len(stdout) :
        /\ stdout[h] = [text |-> "Summary:"]
        /\ Len(stdout) = h + Len(matching_convs)
        /\ \A i \in 1..Len(matching_convs) :
              /\ stdout[h + i].idx = i
              /\ stdout[h + i].title = PyStr(Get(matching_convs[i], "title", JStr(Untitled)))

\* C4: once generate_html has raised, a warning is on stderr, the written
\* conversations.json still holds the extracted conversations, the process does
\* not exit with an error, and when it ends the summary has a line for every
\* extracted conversation.
C4_HtmlFailureIsAWarning ==
    (raised # "" /\ pc # "gen_raised") =>
        /\ pc \in {"summary_head", "summary", "done"}
        /\ stderr = << [text |-> "Warning: Could not generate HTML: {e}", e |-> raised] >>
        /\ outJson = [written |-> TRUE, convs |-> matching_convs]
        /\ exitCode <= 0
        /\ pc = "done" => exitCode = 0 /\ SummaryPrinted

\* C4 witness: the run ended after the sort of a conversation's messages raised.
C4_Witness == pc = "done" /\ raised = "TypeError" /\ Len(matching_convs) >= 1

\* C5 (as stated): a run with no date and no keyword over a (non-empty)
\* conversation set ends with a conversations.json that holds the whole input,
\* in order.
C5_NoFilterReproducesInput ==
    (pc = "done" /\ ~Truthy(args.date) /\ ~Truthy(args.keyword)
       /\ inputFile.kind = "json" /\ inputFile.islist /\ inputFile.data # <<>>) =>
        outJson = [written |-> TRUE, convs |-> inputFile.data]

\* C5 (amended): without a date nothing is extracted or written; with a date
\* and no keyword, over an input whose conversations all have a non-zero
\* create_time on that date, the conversations.json written holds the whole
\* input, in order.
C5_WholeDateReproducesInput ==
    /\ ~Truthy(args.date) => outJson = NoFile /\ outHtml = NoFile
    /\ (outJson.written /\ ~KeywordGiven
          /\ \A i \in 1..Len(inputFile.data) : OnTargetDate(inputFile.data[i]))
       => outJson.convs = inputFile.data

\* C5 witness: two or more conversations, all on the date, were written back.
C5_Witness ==
    /\ outJson.written
    /\ ~KeywordGiven
    /\ Len(inputFile.data) >= 2
    /\ outJson.convs = inputFile.data

BadInput == inputFile.kind \in {"missing", "unreadable", "undecodable", "malformed"}

\* C6: with the input conversations.json missing, unreadable or malformed the
\* run never gets past loading: nothing is listed, extracted or written, and
\* the process exits with a non-zero status and a diagnostic on stderr.
C6_BadInputIsFatal ==
    BadInput =>
        /\ pc \in {"start", "load", "exit"}
        /\ stdout = <<>>
        /\ outJson = NoFile
        /\ outHtml = NoFile
        /\ pc = "exit" => exitCode > 0 /\ stderr # <<>>

\* C6 witness: the data folder exists, the file in it is malformed (or cannot
\* be read), and the process has exited.
C6_Witness ==
    /\ args.isDir
    /\ inputFile.kind \in {"malformed", "unreadable"}
    /\ pc = "exit"

MdDone == pc = "md" /\ mdStage > Len(Stages)

InjectedTags ==
    { Tag(<<"h", "1">>), EndTag(<<"h", "1">>), Tag(<<"h", "2">>), EndTag(<<"h", "2">>),
      Tag(<<"h", "3">>), EndTag(<<"h", "3">>),
      Tag(<<"s", "t", "r", "o", "n", "g">>), EndTag(<<"s", "t", "r", "o", "n", "g">>),
      Tag(<<"e", "m">>), EndTag(<<"e", "m">>),
      Tag(<<"p", "r", "e">>), EndTag(<<"p", "r", "e">>),
      Tag(<<"c", "o", "d", "e">>), EndTag(<<"c", "o", "d", "e">>),
      <<"<", "a", " ", "h", "r", "e", "f", "=", "\"">>, EndTag(<<"a">>),
      Tag(<<"p">>), EndTag(<<"p">>), Tag(<<"b", "r">>) }

Amp == <<"&", "a", "m", "p", ";">>

Lt == <<"&", "l", "t", ";">>

\* C8: escaping happens exactly once: the output has one &amp; per literal & of
\* the cleaned source and one &lt; per literal <, none of them escaped again
\* (the entity bodies amp; and lt; occur only as often as the source accounts
\* for), and every < of the output opens a tag the substitutions or the
\* paragraphing put there.
C8_EscapedExactlyOnce ==
    MdDone =>
        LET src == clean_openai_markup(mdSrc)
        IN  /\ CountSub(mdText, Amp) = Count(src, "&")
            /\ CountSub(mdText, Lt) = Count(src, "<")
            /\ CountSub(mdText, Tail(Amp)) = Count(src, "&") + CountSub(src, Tail(Amp))
            /\ CountSub(mdText, Tail(Lt)) = Count(src, "<") + CountSub(src, Tail(Lt))
            /\ \A k \in 1..Len(mdText) :
                  mdText[k] = "<" => \E tag \in InjectedTags : StartsWithAt(mdText, k, tag)

\* C8 witness: a source with a literal & and a literal < next to markdown that
\* was turned into a tag.
C8_Witness ==
    /\ MdDone
    /\ Count(mdSrc, "&") >= 1
    /\ Count(mdSrc, "<") >= 1
    /\ \E tag \in InjectedTags \ {Tag(<<"p">>), EndTag(<<"p">>)} : CountSub(mdText, tag) >= 1

\* no two occurrences of the marker c that an emphasis pattern could pair:
\* at least one character apart, no newline between
NoPair(s, c) ==
    ~\E i, j \in 1..Len(s) :
        /\ j >= i + 2
        /\ s[i] = c
        /\ s[j] = c
        /\ \A k \in i..j : s[k] # NL

Unterminated(s) ==
    /\ Count(s, "*") + Count(s, "_") >= 1
    /\ NoPair(s, "*")
    /\ NoPair(s, "_")

Blank == <<"_", "b", "l", "a", "n", "k">>

\* the emphasis markers of src are literal characters of out: none was turned
\* into a tag (the _ of target="_blank" is the link substitution's own)
MarkersLeftLiteral(src, out) ==
    /\ Count(out, "*") = Count(src, "*")
    /\ Count(out, "_") - CountSub(out, Blank) = Count(src, "_")
    /\ CountSub(out, Tag(<<"e", "m">>)) = 0
    /\ CountSub(out, Tag(<<"s", "t", "r", "o", "n", "g">>)) = 0

\* C10: the empty string renders to the empty string, and the emphasis markers
\* of a text in which none is terminated are left as literal characters.
C10_EmptyAndUnterminated ==
    MdDone =>
        /\ mdSrc = <<>> => mdText = <<>>
        /\ Unterminated(clean_openai_markup(mdSrc)) =>
              MarkersLeftLiteral(clean_openai_markup(mdSrc), mdText)

\* C10, second half alone: unterminated emphasis markers are left literal.
C10_UnterminatedLeftLiteral ==
    (MdDone /\ Unterminated(clean_openai_markup(mdSrc))) =>
        MarkersLeftLiteral(clean_openai_markup(mdSrc), mdText)

====
